---------------------------- MODULE Spec2Model ----------------------------
(***************************************************************************)
(* HotMic (src/voice_type.py): the recording/transcription session        *)
(* controller, its worker threads, the external transcription engine       *)
(* seen through its calls and callbacks, the overlay's message queue and   *)
(* history deque, and the output sinks (history file, clipboard, paste).   *)
(*                                                                         *)
(* Threads: the hotkey hook thread (one handler at a time), the recorder   *)
(* initialisation thread, one start-worker and one stop-worker per         *)
(* session, one engine thread per final-text callback, and the Tk UI       *)
(* thread.  Every access to shared state is a step of its own.             *)
(***************************************************************************)
EXTENDS Integers, Sequences, FiniteSets, TLC

(* ------------------------------ bounds -------------------------------- *)

\* presses of the record hotkey in one run
MaxToggles == 3
\* largest --max-history value tried
MaxHistory == 1
\* presses of the record hotkey when the UI thread runs too
MaxPresses == 2
\* presses of the record hotkey when every other input is tried too
MaxKeyToggles == 2
\* presses of the other hotkeys and clicks on the overlay's buttons
MaxKeys == 1
\* window-close requests
MaxCloses == 1
\* calls of the overlay's posters by its clients
MaxOps == 3
\* largest max_items the history file is loaded with
MaxItems == 2

Sessions == 1..(MaxToggles + 1)

(* ----------------------------- text values ---------------------------- *)

\* characters str.strip() removes
Whitespace == {" ", "\n", "\t"}

\* final transcripts the engine may deliver (sequences of characters)
Texts == { <<>>, <<" ", "\n">>, <<" ", "a", " ">> }

\* texts the overlay's clients push
HistoryTexts == { <<"a">>, <<"b">> }

\* stripped, non-blank transcripts written to the history file; one holds a
\* newline
FileTexts == { <<"a">>, <<"b">>, <<"a", "\n", "b">> }

RECURSIVE LStrip(_)
LStrip(s) ==
    IF s = <<>> THEN <<>>
    ELSE IF Head(s) \in Whitespace THEN LStrip(Tail(s)) ELSE s

RECURSIVE RStrip(_)
RStrip(s) ==
    IF s = <<>> THEN <<>>
    ELSE IF s[Len(s)] \in Whitespace THEN RStrip(SubSeq(s, 1, Len(s) - 1)) ELSE s

\* str.strip()
Strip(s) == RStrip(LStrip(s))

(* ------------------------------- state -------------------------------- *)

VARIABLES
    is_recording,     \* HotMic._is_recording
    is_processing,    \* HotMic._is_processing
    lock,             \* HotMic._lock: <<"free", 0>> or the holding thread
    auto_paste,       \* HotMic.auto_paste
    recorder,         \* HotMic.recorder: "None", "built" or "shut"
    recorder_ready,   \* HotMic._recorder_ready (threading.Event)
    init_pc,          \* position of the _init_recorder thread
    hk,               \* position of the hotkey hook thread
    hooked,           \* the keyboard hooks are installed
    toggles_left,     \* presses of the record hotkey still to come
    keys_left,        \* other hotkey presses and overlay clicks still to come
    closes_left,      \* window-close requests still to come
    ops_left,         \* calls of the overlay's posters still to come
    n_sessions,       \* sessions started so far (the newest session's id)
    sw,               \* start-worker of each session: its position
    stw,              \* stop-worker of each session: its position
    cb,               \* final-text callback of each session: [pc, raw, text]
    rec_sessions,     \* engine: sessions whose start() was not followed by a stop()
    text_reqs,        \* engine: sessions whose text(callback) is not yet answered
    queue,            \* Overlay._queue
    n_posted,         \* number of queue.put calls so far
    history,          \* Overlay._history (deque, oldest first)
    max_history,      \* the deque's maxlen
    current_status,   \* Overlay._current_status
    visible,          \* Overlay._visible
    inserted,         \* every entry put into the deque since it was last empty
    file,             \* the history file: its lines, oldest first
    clipboard,        \* the system clipboard (<<"none">> before the first write)
    pastes,           \* what each simulated Ctrl+V pasted
    quit_scheduled,   \* root.after(0, self.shutdown) is pending
    exited,           \* os._exit(0) was called
    exit_log,         \* the steps shutdown made, in order, and how each went
    last_toggle,      \* outcome of the latest _toggle_recording
    start_mode,       \* auto_paste as it was when each session was started
    ap_log,           \* every value auto_paste has had, oldest first
    platform,         \* platform.system() of the machine
    filed,            \* the session of each line a dispatch wrote to the file
    pushed,           \* the session of each push_history a dispatch made
    lock_log,         \* accesses to the flags made without the lock, etc.
    ui_ops            \* threads that touched Tk state directly

vars == << is_recording, is_processing, lock, auto_paste, recorder,
           recorder_ready, init_pc, hk, hooked, toggles_left, keys_left,
           closes_left, ops_left, n_sessions, sw, stw, cb, rec_sessions, text_reqs,
           queue, n_posted, history, max_history, current_status, visible,
           inserted, file, clipboard, pastes, quit_scheduled, exited, exit_log,
           last_toggle, start_mode, ap_log, platform, filed, pushed, lock_log, ui_ops >>

ctlVars    == << is_recording, is_processing >>
qVars      == << queue, n_posted >>
engineVars == << recorder, recorder_ready, rec_sessions, text_reqs >>
threadVars == << sw, stw, cb >>
sinkVars   == << file, clipboard, pastes >>
uiVars     == << history, current_status, visible, inserted >>
envVars    == << toggles_left, keys_left, closes_left, ops_left >>
lifeVars   == << hooked, quit_scheduled, exited, exit_log >>

Free == <<"free", 0>>
HK   == <<"hk", 0>>
UI   == <<"ui", 0>>
SW(s)  == <<"sw", s>>
STW(s) == <<"stw", s>>
CB(s)  == <<"cb", s>>

NoCb == [pc |-> "none", raw |-> <<>>, text |-> <<>>]

(* --------------------------- overlay messages -------------------------- *)

\* Overlay.update(text, status, auto_paste): one queue entry.  The text
\* only repaints the text area, which is not part of this model, so the
\* entry keeps the status and the auto-paste label
update(text, status, ap) ==
    [kind |-> "update", status |-> status, ap |-> ap, payload |-> <<>>]

\* Overlay.push_history(text)
push_history(text) ==
    [kind |-> "add_history", status |-> "None", ap |-> "None", payload |-> text]

\* Overlay.request_clear()
request_clear ==
    [kind |-> "clear", status |-> "None", ap |-> "None", payload |-> <<>>]

\* Overlay.request_copy_all()
request_copy_all ==
    [kind |-> "copy_all", status |-> "None", ap |-> "None", payload |-> <<>>]

ApLabel(b) == IF b THEN "on" ELSE "off"


(* ------------------------------ the overlay ---------------------------- *)

\* a bounded buffer that drops the newest entry instead of the oldest
DequeAppendDropNewest(d, n, x) ==
    LET e == Append(d, x) IN IF Len(e) > n THEN SubSeq(e, 1, n) ELSE e

\* deque(maxlen=n).append(x): append, then drop from the left while too long
DequeAppend(d, n, x) ==
    LET e == Append(d, x) IN IF Len(e) > n THEN Tail(e) ELSE e

\* datetime.now().strftime("%H:%M:%S"): a time of day; its value is left open
DisplayStamp == "HH:MM:SS"

\* datetime.now().strftime("%Y-%m-%d %H:%M:%S"): the date, then the time
FileStamp == <<"YYYY-MM-DD", DisplayStamp>>

\* Overlay.add_history(text): ts is None, so the UI thread stamps the entry
add_history(h, n, text) == DequeAppend(h, n, <<DisplayStamp, text>>)

\* Overlay.seed_history(entries)
RECURSIVE seed_history(_, _, _)
seed_history(h, n, entries) ==
    IF entries = <<>> THEN h
    ELSE seed_history(DequeAppend(h, n, Head(entries)), n, Tail(entries))

\* "\n".join(entry for _, entry in self._history)
RECURSIVE JoinHistory(_)
JoinHistory(h) ==
    IF h = <<>> THEN <<>>
    ELSE IF Len(h) = 1 THEN h[1][2]
    ELSE h[1][2] \o <<"\n">> \o JoinHistory(Tail(h))

\* how a call of _copy_to_clipboard can go: it works; OpenClipboard fails
\* twice; GlobalAlloc or GlobalLock fails after EmptyClipboard; or
\* SetClipboardData, whose result is not looked at, fails
ClipOutcomes == {"ok", "busy", "nomem", "unset"}

\* _copy_to_clipboard(text): what the clipboard holds afterwards
copy_to_clipboard(clip, text, outcome) ==
    CASE outcome = "ok" -> text
      [] outcome = "busy" -> clip
      [] OTHER -> <<>>

\* _copy_to_clipboard(text): the value it returns
CopyReturns(outcome) == outcome \in {"ok", "unset"}

\* Overlay._on_copy_all_click: the clipboard after it
on_copy_all_click(h, clip, how) ==
    IF h # <<>> THEN copy_to_clipboard(clip, JoinHistory(h), how) ELSE clip

\* a [Clear] that leaves the entries where they are
on_clear_click_kept(h) == h

\* Overlay._on_clear_click / the "clear" message
on_clear_click(h) == <<>>

\* Overlay._poll_queue: one message applied to the overlay state
\* ov = [history, status, clip, inserted]
PollOne(ov, msg, n, how) ==
    CASE msg.kind = "update" ->
           [ov EXCEPT !.status = IF msg.status # "None" THEN msg.status ELSE @]
      [] msg.kind = "add_history" ->
           [ov EXCEPT !.history = add_history(@, n, msg.payload),
                      !.inserted = Append(@, <<DisplayStamp, msg.payload>>)]
      [] msg.kind = "copy_all" ->
           [ov EXCEPT !.clip = on_copy_all_click(ov.history, @, how)]
      [] msg.kind = "clear" ->
           [ov EXCEPT !.history = on_clear_click(@), !.inserted = <<>>]

\* the ways a pass over queue q can go: _copy_to_clipboard is called only
\* for a "copy_all" message
PollOutcomes(q) ==
    IF \E i \in 1..Len(q) : q[i].kind = "copy_all" THEN ClipOutcomes ELSE {"ok"}

\* Overlay._poll_queue: the loop that empties the queue
RECURSIVE PollAll(_, _, _, _)
PollAll(ov, q, n, how) ==
    IF q = <<>> THEN ov
    ELSE PollAll(PollOne(ov, Head(q), n, how), Tail(q), n, how)

(* --------------------------- the history file -------------------------- *)

\* the file is kept as the records appended to it; a record whose text
\* holds "\n" makes several physical lines, of which only the first
\* carries the "[stamp] " prefix
RECURSIVE SplitLines(_, _)
SplitLines(text, acc) ==
    IF text = <<>> THEN <<acc>>
    ELSE IF Head(text) = "\n" THEN <<acc>> \o SplitLines(Tail(text), <<>>)
    ELSE SplitLines(Tail(text), Append(acc, Head(text)))

RecordLines(r) ==
    LET parts == SplitLines(r.text, <<>>) IN
    [i \in 1..Len(parts) |->
        [stamp |-> IF i = 1 THEN r.ts ELSE <<>>, body |-> parts[i]]]

RECURSIVE PhysicalLines(_)
PhysicalLines(f) ==
    IF f = <<>> THEN <<>> ELSE RecordLines(Head(f)) \o PhysicalLines(Tail(f))

\* HISTORY_LINE_RE: "[<stamp>] " followed by at least one character
MatchesHistoryLine(line) == line.stamp # <<>> /\ line.body # <<>>

\* the entries load_history_file collects, one per matching line
RECURSIVE MatchedEntries(_)
MatchedEntries(lines) ==
    IF lines = <<>> THEN <<>>
    ELSE (IF MatchesHistoryLine(Head(lines))
          THEN << <<Head(lines).stamp[2], Head(lines).body>> >> ELSE <<>>)
         \o MatchedEntries(Tail(lines))

\* Python's entries[-k:]: the last k entries, and the whole list when k = 0
LastSlice(entries, k) ==
    IF k = 0 \/ k >= Len(entries) THEN entries
    ELSE SubSeq(entries, Len(entries) - k + 1, Len(entries))

\* load_history_file(path, max_items); a missing file reads as no lines
load_history_file(f, max_items) ==
    LastSlice(MatchedEntries(PhysicalLines(f)), max_items)

(* --------------------------- lock bookkeeping -------------------------- *)

\* a read or write of _is_recording/_is_processing by thread t at `site`
FlagAccess(t, site) ==
    IF lock = t THEN lock_log ELSE lock_log \cup {<<"unlocked", site>>}

\* a blocking engine call by thread t at `site`
EngineCall(t, site) ==
    IF lock = t THEN lock_log \cup {<<"locked_call", site>>} ELSE lock_log

\* the later of two values a message may leave unset
Over(new, old) == IF new # "None" THEN new ELSE old

\* queue.put(msg).  _poll_queue applies every queued message in one pass
\* and an update only overwrites the status and the label, so an update
\* put right behind another update is folded into it
Put(q, msg) ==
    IF msg.kind = "update" /\ q # <<>> /\ q[Len(q)].kind = "update"
    THEN [q EXCEPT ![Len(q)] = [@ EXCEPT !.status = Over(msg.status, @),
                                         !.ap = Over(msg.ap, @)]]
    ELSE Append(q, msg)

\* a thread puts msg on the overlay's queue
Post(msg) == queue' = Put(queue, msg) /\ n_posted' = n_posted + 1

(* ------------------------- HotMic._toggle_recording -------------------- *)

\* _toggle_recording without its `if self._is_processing: return`
ToggleBranchNoGuard(processing, recording) ==
    IF recording THEN "stop" ELSE "start"

\* the branch _toggle_recording takes, from the two flags
ToggleBranch(processing, recording) ==
    IF processing THEN "noop" ELSE IF recording THEN "stop" ELSE "start"

\* the record hotkey fires: the handler enters `with self._lock`
toggle_recording_acquire ==
    /\ ~exited /\ hooked /\ hk = "idle" /\ toggles_left > 0
    /\ lock = Free
    /\ lock' = HK
    /\ hk' = "toggle"
    /\ toggles_left' = toggles_left - 1
    /\ UNCHANGED << ctlVars, auto_paste, engineVars, init_pc, hooked, keys_left,
                    closes_left, ops_left, n_sessions, threadVars, qVars, uiVars,
                    max_history, sinkVars, quit_scheduled, exited,
                    exit_log, last_toggle, start_mode, ap_log, platform, filed, pushed, lock_log, ui_ops >>

\* the body under the lock: check, flip, spawn the worker; then release
toggle_recording ==
    /\ ~exited /\ hk = "toggle"
    /\ LET br == ToggleBranch(is_processing, is_recording) IN
        /\ last_toggle' = br
        /\ CASE br = "noop" ->
                  UNCHANGED << ctlVars, n_sessions, sw, stw >>
             [] br = "stop" ->
                  /\ is_recording' = FALSE
                  /\ is_processing' = TRUE
                  /\ stw' = [stw EXCEPT ![n_sessions] = "post"]
                  /\ UNCHANGED << n_sessions, sw >>
             [] br = "start" ->
                  /\ is_recording' = TRUE
                  /\ n_sessions' = n_sessions + 1
                  /\ sw' = [sw EXCEPT ![n_sessions + 1] = "check"]
                  /\ UNCHANGED << is_processing, stw >>
    /\ start_mode' = IF ToggleBranch(is_processing, is_recording) = "start"
                     THEN [start_mode EXCEPT
                             ![n_sessions + 1] = ApLabel(auto_paste)]
                     ELSE start_mode
    /\ lock_log' = FlagAccess(HK, "toggle_recording")
    /\ lock' = Free
    /\ hk' = "idle"
    /\ UNCHANGED << auto_paste, engineVars, init_pc, envVars, cb, qVars, uiVars,
                    max_history, sinkVars, lifeVars, ap_log, platform, filed, pushed, ui_ops >>

(* ------------------------- HotMic._start_recording --------------------- *)

\* `if not self._recorder_ready.is_set()`
start_recording_check(s) ==
    /\ ~exited /\ sw[s] = "check"
    /\ sw' = [sw EXCEPT ![s] = IF recorder_ready THEN "listening" ELSE "still"]
    /\ UNCHANGED << ctlVars, lock, auto_paste, engineVars, init_pc, hk, envVars,
                    n_sessions, stw, cb, qVars, uiVars, max_history, sinkVars,
                    lifeVars, last_toggle, start_mode, ap_log, platform, filed, pushed, lock_log, ui_ops >>

\* not ready: overlay.update(text="Still loading models...")
start_recording_still(s) ==
    /\ ~exited /\ sw[s] = "still"
    /\ Post(update("still_loading", "None", "None"))
    /\ sw' = [sw EXCEPT ![s] = "lock"]
    /\ UNCHANGED << ctlVars, lock, auto_paste, engineVars, init_pc, hk, envVars,
                    n_sessions, stw, cb, uiVars, max_history, sinkVars,
                    lifeVars, last_toggle, start_mode, ap_log, platform, filed, pushed, lock_log, ui_ops >>

\* not ready: `with self._lock`
start_recording_acquire(s) ==
    /\ ~exited /\ sw[s] = "lock"
    /\ lock = Free
    /\ lock' = SW(s)
    /\ sw' = [sw EXCEPT ![s] = "clear"]
    /\ UNCHANGED << ctlVars, auto_paste, engineVars, init_pc, hk, envVars,
                    n_sessions, stw, cb, qVars, uiVars, max_history, sinkVars,
                    lifeVars, last_toggle, start_mode, ap_log, platform, filed, pushed, lock_log, ui_ops >>

\* not ready: `self._is_recording = False`, release, return
start_recording_clear(s) ==
    /\ ~exited /\ sw[s] = "clear"
    /\ is_recording' = FALSE
    /\ lock_log' = FlagAccess(SW(s), "start_recording")
    /\ lock' = Free
    /\ sw' = [sw EXCEPT ![s] = "aborted"]
    /\ UNCHANGED << is_processing, auto_paste, engineVars, init_pc, hk, envVars,
                    n_sessions, stw, cb, qVars, uiVars, max_history, sinkVars,
                    lifeVars, last_toggle, start_mode, ap_log, platform, filed, pushed, ui_ops >>

\* ready: overlay.update(text="Listening...", status=RECORDING)
start_recording_listening(s) ==
    /\ ~exited /\ sw[s] = "listening"
    /\ Post(update("listening", "RECORDING", "None"))
    /\ sw' = [sw EXCEPT ![s] = "start"]
    /\ UNCHANGED << ctlVars, lock, auto_paste, engineVars, init_pc, hk, envVars,
                    n_sessions, stw, cb, uiVars, max_history, sinkVars,
                    lifeVars, last_toggle, start_mode, ap_log, platform, filed, pushed, lock_log, ui_ops >>

\* ready: self.recorder.start(); the engine reports on_recording_start,
\* which posts update(status=RECORDING)
start_recording_start(s) ==
    /\ ~exited /\ sw[s] = "start"
    /\ rec_sessions' = rec_sessions \cup {s}
    /\ Post(update("None", "RECORDING", "None"))
    /\ lock_log' = EngineCall(SW(s), "recorder.start")
    /\ sw' = [sw EXCEPT ![s] = "started"]
    /\ UNCHANGED << ctlVars, lock, auto_paste, recorder, recorder_ready,
                    text_reqs, init_pc, hk, envVars, n_sessions, stw, cb,
                    uiVars, max_history, sinkVars, lifeVars, last_toggle, start_mode, ap_log, platform, filed, pushed,
                    ui_ops >>

(* ------------------------- HotMic._stop_recording ---------------------- *)

\* overlay.update(status=PROCESSING)
stop_recording_post(s) ==
    /\ ~exited /\ stw[s] = "post"
    /\ Post(update("None", "PROCESSING", "None"))
    /\ stw' = [stw EXCEPT ![s] = "stop"]
    /\ UNCHANGED << ctlVars, lock, auto_paste, engineVars, init_pc, hk, envVars,
                    n_sessions, sw, cb, uiVars, max_history, sinkVars,
                    lifeVars, last_toggle, start_mode, ap_log, platform, filed, pushed, lock_log, ui_ops >>

\* self.recorder.stop(): AttributeError ends the thread while recorder is
\* None; otherwise the engine stops and reports on_recording_stop, which
\* posts update(status=PROCESSING)
stop_recording_stop(s) ==
    /\ ~exited /\ stw[s] = "stop"
    /\ IF recorder = "None"
       THEN /\ stw' = [stw EXCEPT ![s] = "crashed"]
            /\ UNCHANGED << rec_sessions, qVars, lock_log >>
       ELSE /\ rec_sessions' = {}
            /\ Post(update("None", "PROCESSING", "None"))
            /\ lock_log' = EngineCall(STW(s), "recorder.stop")
            /\ stw' = [stw EXCEPT ![s] = "text"]
    /\ UNCHANGED << ctlVars, lock, auto_paste, recorder, recorder_ready,
                    text_reqs, init_pc, hk, envVars, n_sessions, sw, cb,
                    uiVars, max_history, sinkVars, lifeVars, last_toggle, start_mode, ap_log, platform, filed, pushed,
                    ui_ops >>

\* self.recorder.text(self._on_final_text): the finalize request
stop_recording_text(s) ==
    /\ ~exited /\ stw[s] = "text"
    /\ text_reqs' = text_reqs \cup {s}
    /\ lock_log' = EngineCall(STW(s), "recorder.text")
    /\ stw' = [stw EXCEPT ![s] = "done"]
    /\ UNCHANGED << ctlVars, lock, auto_paste, recorder, recorder_ready,
                    rec_sessions, init_pc, hk, envVars, n_sessions, sw, cb,
                    qVars, uiVars, max_history, sinkVars, lifeVars,
                    last_toggle, start_mode, ap_log, platform, filed, pushed, ui_ops >>

(* ------------------------- HotMic._init_recorder ----------------------- *)

\* overlay.update(text="Loading Whisper models...")
init_recorder_loading ==
    /\ ~exited /\ init_pc = "loading"
    /\ Post(update("loading", "None", "None"))
    /\ init_pc' = "construct"
    /\ UNCHANGED << ctlVars, lock, auto_paste, engineVars, hk, envVars,
                    n_sessions, threadVars, uiVars, max_history, sinkVars,
                    lifeVars, last_toggle, start_mode, ap_log, platform, filed, pushed, lock_log, ui_ops >>

\* self.recorder = AudioToTextRecorder(...)
init_recorder_construct ==
    /\ ~exited /\ init_pc = "construct"
    /\ recorder' = "built"
    /\ init_pc' = "set"
    /\ UNCHANGED << ctlVars, lock, auto_paste, recorder_ready, rec_sessions,
                    text_reqs, hk, envVars, n_sessions, threadVars, qVars,
                    uiVars, max_history, sinkVars, lifeVars, last_toggle, start_mode, ap_log, platform, filed, pushed,
                    lock_log, ui_ops >>

\* self._recorder_ready.set()
init_recorder_set ==
    /\ ~exited /\ init_pc = "set"
    /\ recorder_ready' = TRUE
    /\ init_pc' = "post"
    /\ UNCHANGED << ctlVars, lock, auto_paste, recorder, rec_sessions,
                    text_reqs, hk, envVars, n_sessions, threadVars, qVars,
                    uiVars, max_history, sinkVars, lifeVars, last_toggle, start_mode, ap_log, platform, filed, pushed,
                    lock_log, ui_ops >>

\* overlay.update(text="Ready ...", status=IDLE)
init_recorder_ready ==
    /\ ~exited /\ init_pc = "post"
    /\ Post(update("ready", "IDLE", "None"))
    /\ init_pc' = "done"
    /\ UNCHANGED << ctlVars, lock, auto_paste, engineVars, hk, envVars,
                    n_sessions, threadVars, uiVars, max_history, sinkVars,
                    lifeVars, last_toggle, start_mode, ap_log, platform, filed, pushed, lock_log, ui_ops >>

(* -------------------------- HotMic._on_final_text ---------------------- *)

\* _on_final_text without its strip()
DispatchTextUnstripped(raw) == raw

\* `text = text.strip()`: the text the dispatch works on
DispatchText(raw) == Strip(raw)

\* the engine answers a finalize request: it calls _on_final_text(raw) on a
\* thread of its own; the callback's first statement strips the text
final_text_callback(s, raw) ==
    /\ ~exited /\ s \in text_reqs
    /\ text_reqs' = text_reqs \ {s}
    /\ cb' = [cb EXCEPT ![s] = [pc |-> "lock", raw |-> raw,
                                text |-> DispatchText(raw)]]
    /\ UNCHANGED << ctlVars, lock, auto_paste, recorder, recorder_ready,
                    rec_sessions, init_pc, hk, envVars, n_sessions, sw, stw,
                    qVars, uiVars, max_history, sinkVars, lifeVars,
                    last_toggle, start_mode, ap_log, platform, filed, pushed, lock_log, ui_ops >>

\* `with self._lock`
on_final_text_acquire(s) ==
    /\ ~exited /\ cb[s].pc = "lock"
    /\ lock = Free
    /\ lock' = CB(s)
    /\ cb' = [cb EXCEPT ![s].pc = "clear"]
    /\ UNCHANGED << ctlVars, auto_paste, engineVars, init_pc, hk, envVars,
                    n_sessions, sw, stw, qVars, uiVars, max_history, sinkVars,
                    lifeVars, last_toggle, start_mode, ap_log, platform, filed, pushed, lock_log, ui_ops >>

\* where _on_final_text goes after the flag reset: `if not text`
AfterReset(text) == IF text = <<>> THEN "nospeech" ELSE "file"

\* `self._is_processing = False`, release
on_final_text_clear(s) ==
    /\ ~exited /\ cb[s].pc = "clear"
    /\ is_processing' = FALSE
    /\ lock_log' = FlagAccess(CB(s), "on_final_text")
    /\ lock' = Free
    /\ cb' = [cb EXCEPT ![s].pc = AfterReset(cb[s].text)]
    /\ UNCHANGED << is_recording, auto_paste, engineVars, init_pc, hk, envVars,
                    n_sessions, sw, stw, qVars, uiVars, max_history, sinkVars,
                    lifeVars, last_toggle, start_mode, ap_log, platform, filed, pushed, ui_ops >>

\* blank: overlay.update(text="(no speech detected) ...", status=IDLE); return
on_final_text_nospeech(s) ==
    /\ ~exited /\ cb[s].pc = "nospeech"
    /\ Post(update("no_speech", "IDLE", "None"))
    /\ cb' = [cb EXCEPT ![s].pc = "done"]
    /\ UNCHANGED << ctlVars, lock, auto_paste, engineVars, init_pc, hk, envVars,
                    n_sessions, sw, stw, uiVars, max_history, sinkVars,
                    lifeVars, last_toggle, start_mode, ap_log, platform, filed, pushed, lock_log, ui_ops >>

\* a dispatch that leaves the history file alone
append_to_history_file_skipped(f, text) == f

\* append_to_history_file(text, path): one more line, "[<stamp>] <text>"
append_to_history_file(f, text) == Append(f, [ts |-> FileStamp, text |-> text])

on_final_text_file(s) ==
    /\ ~exited /\ cb[s].pc = "file"
    /\ file' = append_to_history_file(file, cb[s].text)
    /\ filed' = Append(filed, s)
    /\ cb' = [cb EXCEPT ![s].pc = "push"]
    /\ UNCHANGED << ctlVars, lock, auto_paste, engineVars, init_pc, hk, envVars,
                    n_sessions, sw, stw, qVars, uiVars, max_history, clipboard,
                    pastes, lifeVars, last_toggle, start_mode, ap_log, platform, pushed, lock_log, ui_ops >>

\* self.overlay.push_history(text)
on_final_text_push(s) ==
    /\ ~exited /\ cb[s].pc = "push"
    /\ Post(push_history(cb[s].text))
    /\ pushed' = Append(pushed, s)
    /\ cb' = [cb EXCEPT ![s].pc = "idle"]
    /\ UNCHANGED << ctlVars, lock, auto_paste, engineVars, init_pc, hk, envVars,
                    n_sessions, sw, stw, uiVars, max_history, sinkVars,
                    lifeVars, last_toggle, start_mode, ap_log, platform, filed, lock_log, ui_ops >>

\* self.overlay.update(status=IDLE)
on_final_text_idle(s) ==
    /\ ~exited /\ cb[s].pc = "idle"
    /\ Post(update("None", "IDLE", "None"))
    /\ cb' = [cb EXCEPT ![s].pc = "mode"]
    /\ UNCHANGED << ctlVars, lock, auto_paste, engineVars, init_pc, hk, envVars,
                    n_sessions, sw, stw, uiVars, max_history, sinkVars,
                    lifeVars, last_toggle, start_mode, ap_log, platform, filed, pushed, lock_log, ui_ops >>

\* a dispatch that pastes whatever the mode flag says
AfterHistoryAlwaysPaste(ap) == "copy"

\* where _on_final_text goes after the history sinks: `if self.auto_paste`
AfterHistory(ap) == IF ap THEN "copy" ELSE "done"

\* `if self.auto_paste`: the flag is read here, without the lock
on_final_text_mode(s) ==
    /\ ~exited /\ cb[s].pc = "mode"
    /\ cb' = [cb EXCEPT ![s].pc = AfterHistory(auto_paste)]
    /\ UNCHANGED << ctlVars, lock, auto_paste, engineVars, init_pc, hk, envVars,
                    n_sessions, sw, stw, qVars, uiVars, max_history, sinkVars,
                    lifeVars, last_toggle, start_mode, ap_log, platform, filed, pushed, lock_log, ui_ops >>

\* paste_to_active_window: `if _copy_to_clipboard(text)`
paste_copy(s, how) ==
    /\ ~exited /\ cb[s].pc = "copy"
    /\ clipboard' = copy_to_clipboard(clipboard, cb[s].text, how)
    /\ cb' = [cb EXCEPT ![s].pc = IF CopyReturns(how) THEN "send" ELSE "done"]
    /\ UNCHANGED << ctlVars, lock, auto_paste, engineVars, init_pc, hk, envVars,
                    n_sessions, sw, stw, qVars, uiVars, max_history, file,
                    pastes, lifeVars, last_toggle, start_mode, ap_log, platform, filed, pushed, lock_log, ui_ops >>

\* paste_to_active_window: kb.send("ctrl+v") pastes what the clipboard holds
paste_send(s) ==
    /\ ~exited /\ cb[s].pc = "send"
    /\ pastes' = Append(pastes, clipboard)
    /\ cb' = [cb EXCEPT ![s].pc = "done"]
    /\ UNCHANGED << ctlVars, lock, auto_paste, engineVars, init_pc, hk, envVars,
                    n_sessions, sw, stw, qVars, uiVars, max_history, file,
                    clipboard, lifeVars, last_toggle, start_mode, ap_log, platform, filed, pushed, lock_log, ui_ops >>

(* ------------------------------ the UI thread -------------------------- *)

\* Overlay._poll_queue on the Tk thread: every queued message, in order
poll_queue(how) ==
    /\ ~exited /\ queue # <<>>
    /\ how \in PollOutcomes(queue)
    /\ LET ov == PollAll([history |-> history, status |-> current_status,
                          clip |-> clipboard, inserted |-> inserted],
                         queue, max_history, how)
       IN /\ history' = ov.history
          /\ current_status' = ov.status
          /\ clipboard' = ov.clip
          /\ inserted' = ov.inserted
    /\ queue' = <<>>
    /\ UNCHANGED n_posted
    /\ ui_ops' = ui_ops \cup {"ui"}
    /\ UNCHANGED << ctlVars, lock, auto_paste, engineVars, init_pc, hk, envVars,
                    n_sessions, threadVars, visible, max_history, file, pastes,
                    lifeVars, last_toggle, start_mode, ap_log, platform, filed, pushed, lock_log >>

\* a click on [Clear]: Overlay._on_clear_click on the Tk thread
clear_click ==
    /\ ~exited /\ keys_left > 0
    /\ keys_left' = keys_left - 1
    /\ history' = on_clear_click(history)
    /\ inserted' = <<>>
    /\ ui_ops' = ui_ops \cup {"ui"}
    /\ UNCHANGED << ctlVars, lock, auto_paste, engineVars, init_pc, hk,
                    toggles_left, closes_left, ops_left, n_sessions, threadVars, qVars,
                    current_status, visible, max_history, sinkVars, lifeVars,
                    last_toggle, start_mode, ap_log, platform, filed, pushed, lock_log >>

\* the same click, counted among the overlay's operations
clear_click_overlay ==
    /\ ~exited /\ ops_left > 0
    /\ ops_left' = ops_left - 1
    /\ history' = on_clear_click(history)
    /\ inserted' = <<>>
    /\ ui_ops' = ui_ops \cup {"ui"}
    /\ UNCHANGED << ctlVars, lock, auto_paste, engineVars, init_pc, hk,
                    toggles_left, keys_left, closes_left, n_sessions,
                    threadVars, qVars, current_status, visible, max_history,
                    sinkVars, lifeVars, last_toggle, start_mode, ap_log, platform, filed, pushed, lock_log >>

\* a click on [Copy All]: Overlay._on_copy_all_click on the Tk thread
copy_all_click(how) ==
    /\ ~exited /\ keys_left > 0
    /\ keys_left' = keys_left - 1
    /\ clipboard' = on_copy_all_click(history, clipboard, how)
    /\ ui_ops' = ui_ops \cup {"ui"}
    /\ UNCHANGED << ctlVars, lock, auto_paste, engineVars, init_pc, hk,
                    toggles_left, closes_left, ops_left, n_sessions, threadVars, qVars,
                    uiVars, max_history, file, pastes, lifeVars, last_toggle, start_mode, ap_log, platform, filed, pushed,
                    lock_log >>

(* ------------------------- the other hotkey handlers ------------------- *)

\* a toggle that leaves the flag as it was
FlipAutoPasteStuck(ap) == ap

\* `self.auto_paste = not self.auto_paste`
FlipAutoPaste(ap) == ~ap

\* HotMic._toggle_auto_paste on the hook thread
toggle_auto_paste ==
    /\ ~exited /\ hooked /\ hk = "idle" /\ keys_left > 0
    /\ keys_left' = keys_left - 1
    /\ auto_paste' = FlipAutoPaste(auto_paste)
    /\ ap_log' = Append(ap_log, FlipAutoPaste(auto_paste))
    /\ Post(update("None", "None", ApLabel(FlipAutoPaste(auto_paste))))
    /\ UNCHANGED << ctlVars, lock, engineVars, init_pc, hk, toggles_left,
                    closes_left, ops_left, n_sessions, threadVars, uiVars, max_history,
                    sinkVars, lifeVars, last_toggle, start_mode, platform, filed, pushed, lock_log, ui_ops >>

\* HotMic._copy_all on the hook thread: overlay.request_copy_all()
copy_all ==
    /\ ~exited /\ hooked /\ hk = "idle" /\ keys_left > 0
    /\ keys_left' = keys_left - 1
    /\ Post(request_copy_all)
    /\ UNCHANGED << ctlVars, lock, auto_paste, engineVars, init_pc, hk,
                    toggles_left, closes_left, ops_left, n_sessions, threadVars, uiVars,
                    max_history, sinkVars, lifeVars, last_toggle, start_mode, ap_log, platform, filed, pushed, lock_log,
                    ui_ops >>

\* Overlay.toggle_visibility: withdraw/deiconify the windows, flip _visible
toggle_visibility(v) == ~v

\* HotMic._toggle_overlay on the hook thread: it calls
\* overlay.toggle_visibility() itself, not through the queue
toggle_overlay ==
    /\ ~exited /\ hooked /\ hk = "idle" /\ keys_left > 0
    /\ keys_left' = keys_left - 1
    /\ visible' = toggle_visibility(visible)
    /\ ui_ops' = ui_ops \cup {"hotkey"}
    /\ UNCHANGED << ctlVars, lock, auto_paste, engineVars, init_pc, hk,
                    toggles_left, closes_left, ops_left, n_sessions, threadVars, qVars,
                    history, current_status, inserted, max_history, sinkVars,
                    lifeVars, last_toggle, start_mode, ap_log, platform, filed, pushed, lock_log >>

\* HotMic._request_quit on the hook thread: a status text, then
\* root.after(0, self.shutdown) hands shutdown to the Tk event loop
request_quit ==
    /\ ~exited /\ hooked /\ hk = "idle" /\ keys_left > 0
    /\ keys_left' = keys_left - 1
    /\ Post(update("shutting_down", "None", "None"))
    /\ quit_scheduled' = TRUE
    /\ UNCHANGED << ctlVars, lock, auto_paste, engineVars, init_pc, hk,
                    toggles_left, closes_left, ops_left, n_sessions, threadVars, uiVars,
                    max_history, sinkVars, hooked, exited, exit_log,
                    last_toggle, start_mode, ap_log, platform, filed, pushed, lock_log, ui_ops >>

(* ------------------------------ HotMic.shutdown ------------------------ *)

\* what the engine part of shutdown does.  `if self.recorder`, then inside
\* one try: `if self._is_recording: self.recorder.stop()` and
\* `self.recorder.shutdown()`; an exception from stop() skips shutdown()
ShutdownEngine(built, recording, stop_ok, shut_ok) ==
    LET shut == IF shut_ok THEN <<"shutdown">> ELSE <<"shutdown_failed">>
    IN IF ~built THEN <<>>
       ELSE IF recording
            THEN (IF stop_ok THEN <<"stop">> \o shut ELSE <<"stop_failed">>)
            ELSE shut

Has(seq, x) == \E i \in 1..Len(seq) : seq[i] = x

\* HotMic.shutdown on the Tk thread (WM_DELETE_WINDOW, KeyboardInterrupt, or
\* the quit hotkey's root.after): unhook, stop the engine, destroy the
\* window, os._exit(0).  Each step may raise; every exception is swallowed.
\* _is_recording is read without taking the lock.
shutdown(unhook_ok, stop_ok, shut_ok, destroy_ok) ==
    /\ ~exited /\ init_pc # "none"
    /\ quit_scheduled \/ closes_left > 0
    /\ closes_left' = IF quit_scheduled THEN closes_left ELSE closes_left - 1
    /\ LET eng == ShutdownEngine(recorder # "None", is_recording,
                                 stop_ok, shut_ok)
       IN /\ hooked' = IF unhook_ok THEN FALSE ELSE hooked
          /\ rec_sessions' = IF Has(eng, "stop") THEN {} ELSE rec_sessions
          /\ recorder' = IF Has(eng, "shutdown") THEN "shut" ELSE recorder
          /\ exit_log' = (IF unhook_ok THEN <<"unhook">>
                                        ELSE <<"unhook_failed">>) \o eng
                         \o (IF destroy_ok THEN <<"destroy">>
                                           ELSE <<"destroy_failed">>)
                         \o <<"exit0">>
    /\ lock_log' = IF recorder # "None" THEN FlagAccess(UI, "shutdown")
                   ELSE lock_log
    /\ exited' = TRUE
    /\ quit_scheduled' = FALSE
    /\ UNCHANGED << ctlVars, lock, auto_paste, recorder_ready, text_reqs,
                    init_pc, hk, toggles_left, keys_left, ops_left,
                    n_sessions,
                    threadVars, qVars, uiVars, max_history, sinkVars,
                    last_toggle, start_mode, ap_log, platform, filed, pushed, ui_ops >>

(* --------------------- the overlay's thread-safe posters ---------------- *)

\* any thread: overlay.push_history(text)
overlay_push_history(text) ==
    /\ ~exited /\ ops_left > 0
    /\ ops_left' = ops_left - 1
    /\ Post(push_history(text))
    /\ UNCHANGED << ctlVars, lock, auto_paste, engineVars, init_pc, hk,
                    toggles_left, keys_left, closes_left, n_sessions,
                    threadVars, uiVars, max_history, sinkVars, lifeVars,
                    last_toggle, start_mode, ap_log, platform, filed, pushed, lock_log, ui_ops >>

\* any thread: overlay.request_clear()
overlay_request_clear ==
    /\ ~exited /\ ops_left > 0
    /\ ops_left' = ops_left - 1
    /\ Post(request_clear)
    /\ UNCHANGED << ctlVars, lock, auto_paste, engineVars, init_pc, hk,
                    toggles_left, keys_left, closes_left, n_sessions,
                    threadVars, uiVars, max_history, sinkVars, lifeVars,
                    last_toggle, start_mode, ap_log, platform, filed, pushed, lock_log, ui_ops >>

\* the UI thread: overlay.seed_history(load_history_file(path, max_items)),
\* as HotMic.__init__ calls it, for a history file f
overlay_seed_history(f) ==
    /\ ~exited /\ ops_left > 0
    /\ ops_left' = ops_left - 1
    /\ history' = seed_history(history, max_history,
                               load_history_file(f, max_history))
    /\ inserted' = inserted \o load_history_file(f, max_history)
    /\ ui_ops' = ui_ops \cup {"ui"}
    /\ UNCHANGED << ctlVars, lock, auto_paste, engineVars, init_pc, hk,
                    toggles_left, keys_left, closes_left, n_sessions,
                    threadVars, qVars, current_status, visible, max_history,
                    sinkVars, lifeVars, last_toggle, start_mode, ap_log, platform, filed, pushed, lock_log >>

\* a dispatch's file sink on its own: append_to_history_file(text, path)
history_file_append(text) ==
    /\ ~exited /\ ops_left > 0
    /\ ops_left' = ops_left - 1
    /\ file' = append_to_history_file(file, text)
    /\ UNCHANGED << ctlVars, lock, auto_paste, engineVars, init_pc, hk,
                    toggles_left, keys_left, closes_left, n_sessions,
                    threadVars, qVars, uiVars, max_history, clipboard, pastes,
                    lifeVars, last_toggle, start_mode, ap_log, platform, filed, pushed, lock_log, ui_ops >>

\* the next run's HotMic.__init__ with --load-history:
\* entries = load_history_file(path, max_history), seeded into a new overlay
history_file_load ==
    /\ ~exited /\ ops_left > 0
    /\ ops_left' = ops_left - 1
    /\ inserted' = load_history_file(file, max_history)
    /\ history' = seed_history(<<>>, max_history,
                               load_history_file(file, max_history))
    /\ UNCHANGED << ctlVars, lock, auto_paste, engineVars, init_pc, hk,
                    toggles_left, keys_left, closes_left, n_sessions,
                    threadVars, qVars, current_status, visible, max_history,
                    sinkVars, lifeVars, last_toggle, start_mode, ap_log, platform, filed, pushed, lock_log,
                    ui_ops >>

(* ----------------------------- HotMic.__init__ ------------------------- *)

\* history files a run may find: none, or lines left by earlier runs
OldFiles ==
    { <<>>,
      << [ts |-> FileStamp, text |-> <<"o">>] >>,
      << [ts |-> FileStamp, text |-> <<"o">>],
         [ts |-> FileStamp, text |-> <<"p">>] >> }

\* the shortest of them
ShortFiles == { f \in OldFiles : Len(f) <= 1 }

\* the entries HotMic.__init__ seeds the overlay with (--load-history)
SeedEntries(load, f, n) == IF load THEN load_history_file(f, n) ELSE <<>>

\* the state HotMic.__init__ leaves: flags clear, the overlay built (seeded
\* from the history file when asked) with update(auto_paste=...) queued, the
\* recorder thread started, hotkeys registered.  toggles, keys, closes and
\* ops are the inputs still to come; sizes, files and loads are the
\* configurations tried
InitWith(toggles, keys, closes, ops, sizes, files, loads) ==
    /\ is_recording = FALSE
    /\ is_processing = FALSE
    /\ lock = Free
    /\ auto_paste \in BOOLEAN
    /\ recorder = "None"
    /\ recorder_ready = FALSE
    /\ init_pc = "loading"
    /\ hk = "idle"
    /\ hooked = TRUE
    /\ toggles_left = toggles
    /\ keys_left = keys
    /\ closes_left = closes
    /\ ops_left = ops
    /\ n_sessions = 0
    /\ sw = [s \in Sessions |-> "none"]
    /\ stw = [s \in Sessions |-> "none"]
    /\ cb = [s \in Sessions |-> NoCb]
    /\ rec_sessions = {}
    /\ text_reqs = {}
    /\ queue = << update("None", "None", ApLabel(auto_paste)) >>
    /\ n_posted = 1
    /\ max_history \in sizes
    /\ file \in files
    /\ \E load \in loads :
          /\ history = seed_history(<<>>, max_history,
                                    SeedEntries(load, file, max_history))
          /\ inserted = SeedEntries(load, file, max_history)
    /\ current_status = "IDLE"
    /\ visible = TRUE
    /\ clipboard = <<"?">>
    /\ pastes = <<>>
    /\ quit_scheduled = FALSE
    /\ exited = FALSE
    /\ exit_log = <<>>
    /\ last_toggle = "none"
    /\ start_mode = [s \in Sessions |-> "None"]
    /\ ap_log = << auto_paste >>
    /\ platform = "Windows"
    /\ filed = <<>>
    /\ pushed = <<>>
    /\ lock_log = {}
    /\ ui_ops = {}

(* ---------------- the session controller (no UI thread) ---------------- *)

\* The Tk thread only reads the queue and writes the overlay's own state,
\* which no other thread reads, so the controller's behaviour is the same
\* with and without it.
Init == InitWith(MaxToggles, 0, 0, 0, {MaxHistory}, {<<>>}, {FALSE})

Next ==
    \/ toggle_recording_acquire
    \/ toggle_recording
    \/ \E s \in Sessions : start_recording_check(s)
    \/ \E s \in Sessions : start_recording_still(s)
    \/ \E s \in Sessions : start_recording_acquire(s)
    \/ \E s \in Sessions : start_recording_clear(s)
    \/ \E s \in Sessions : start_recording_listening(s)
    \/ \E s \in Sessions : start_recording_start(s)
    \/ \E s \in Sessions : stop_recording_post(s)
    \/ \E s \in Sessions : stop_recording_stop(s)
    \/ \E s \in Sessions : stop_recording_text(s)
    \/ init_recorder_loading
    \/ init_recorder_construct
    \/ init_recorder_set
    \/ init_recorder_ready
    \/ \E s \in Sessions, raw \in Texts : final_text_callback(s, raw)
    \/ \E s \in Sessions : on_final_text_acquire(s)
    \/ \E s \in Sessions : on_final_text_clear(s)
    \/ \E s \in Sessions : on_final_text_nospeech(s)
    \/ \E s \in Sessions : on_final_text_file(s)
    \/ \E s \in Sessions : on_final_text_push(s)
    \/ \E s \in Sessions : on_final_text_idle(s)
    \/ \E s \in Sessions : on_final_text_mode(s)
    \/ \E s \in Sessions, how \in ClipOutcomes : paste_copy(s, how)
    \/ \E s \in Sessions : paste_send(s)

Spec == Init /\ [][Next]_vars

(* -------------- the session controller, scheduled fairly --------------- *)

\* every thread that can take a step eventually takes it: the recorder
\* thread, the workers (daemon threads under the interpreter's scheduler),
\* the hook thread once it is inside a handler, and the engine, which
\* answers every text() request and runs every callback it started
Fairness ==
    /\ WF_vars(toggle_recording)
    /\ WF_vars(init_recorder_loading) /\ WF_vars(init_recorder_construct)
    /\ WF_vars(init_recorder_set) /\ WF_vars(init_recorder_ready)
    /\ \A s \in Sessions :
          /\ WF_vars(start_recording_check(s))
          /\ WF_vars(start_recording_still(s))
          /\ WF_vars(start_recording_acquire(s))
          /\ WF_vars(start_recording_clear(s))
          /\ WF_vars(start_recording_listening(s))
          /\ WF_vars(start_recording_start(s))
          /\ WF_vars(stop_recording_post(s))
          /\ WF_vars(stop_recording_stop(s))
          /\ WF_vars(stop_recording_text(s))
          /\ WF_vars(\E raw \in Texts : final_text_callback(s, raw))
          /\ WF_vars(on_final_text_acquire(s))
          /\ WF_vars(on_final_text_clear(s))
          /\ WF_vars(on_final_text_nospeech(s))
          /\ WF_vars(on_final_text_file(s))
          /\ WF_vars(on_final_text_push(s))
          /\ WF_vars(on_final_text_idle(s))
          /\ WF_vars(on_final_text_mode(s))
          /\ WF_vars(\E how \in ClipOutcomes : paste_copy(s, how))
          /\ WF_vars(paste_send(s))

SpecLive == Init /\ [][Next]_vars /\ Fairness

(* ------------- the session controller through two sessions ------------- *)

\* as Init, with one more press of the record hotkey to come: two sessions
\* can be started and stopped
InitOrder == InitWith(MaxToggles + 1, 0, 0, 0, {MaxHistory}, {<<>>}, {FALSE})

SpecOrder == InitOrder /\ [][Next]_vars

(* ------------------- the controller with the UI thread ----------------- *)

InitUI == InitWith(MaxPresses, 0, 0, 0, 0..MaxHistory, ShortFiles, {TRUE})

NextUI ==
    \/ Next
    \/ \E how \in ClipOutcomes : poll_queue(how)

SpecUI == InitUI /\ [][NextUI]_vars

(* ------------- the controller with the auto-paste hotkey --------------- *)

InitMode == InitWith(MaxPresses, MaxKeys, 0, 0, {MaxHistory}, {<<>>}, {FALSE})

NextMode ==
    \/ Next
    \/ toggle_auto_paste

SpecMode == InitMode /\ [][NextMode]_vars

(* ------- the controller with the auto-paste hotkey pressed again ------- *)

\* as InitMode, with one more press of the auto-paste hotkey to come
InitPaste == InitWith(MaxPresses, MaxKeys + 1, 0, 0, {MaxHistory}, {<<>>},
                      {FALSE})

NextPaste ==
    \/ Next
    \/ toggle_auto_paste

SpecPaste == InitPaste /\ [][NextPaste]_vars

(* ------------- every hotkey, the overlay's buttons, shutdown ----------- *)

InitKeys == InitWith(MaxKeyToggles, MaxKeys, MaxCloses, 0, {MaxHistory},
                     {<<>>}, {FALSE})

NextKeys ==
    \/ NextUI
    \/ toggle_auto_paste
    \/ copy_all
    \/ toggle_overlay
    \/ request_quit
    \/ clear_click
    \/ \E how \in ClipOutcomes : copy_all_click(how)
    \/ \E u, st, sh, d \in BOOLEAN : shutdown(u, st, sh, d)

SpecKeys == InitKeys /\ [][NextKeys]_vars

(* --------------------- the overlay under any client -------------------- *)

InitOverlay == InitWith(0, 0, 0, MaxOps, 0..MaxHistory, OldFiles, BOOLEAN)

NextOverlay ==
    \/ \E t \in HistoryTexts : overlay_push_history(t)
    \/ overlay_request_clear
    \/ \E f \in OldFiles : overlay_seed_history(f)
    \/ \E how \in ClipOutcomes : poll_queue(how)
    \/ clear_click_overlay

SpecOverlay == InitOverlay /\ [][NextOverlay]_vars

(* --------------- sessions, the UI thread and [Clear] ------------------- *)

\* a run that loads a history file of one line, with clicks on [Clear] to
\* come.  HotMic never calls overlay.request_clear(), so the button is the
\* only way a clear happens in the program; the "clear" message is
\* exercised in SpecOverlay
InitClear == InitWith(MaxPresses, MaxKeys, 0, 0, {MaxHistory},
                      ShortFiles \ {<<>>}, {TRUE})

NextClear ==
    \/ NextUI
    \/ clear_click

SpecClear == InitClear /\ [][NextClear]_vars

(* ------------------------- main() and shutdown ------------------------- *)

\* a main() that starts the program wherever it runs
PlatformAlwaysSupported(p) == TRUE

\* main(): `if platform.system() != "Windows"` refuses to start
PlatformSupported(p) == p = "Windows"

\* main(): on another platform raise SystemExit(1); on Windows
\* parse_args() and HotMic(args), which leaves the state InitWith describes
\* (ap: the configured auto-paste mode)
main(ap) ==
    /\ ~exited /\ init_pc = "none"
    /\ IF PlatformSupported(platform)
       THEN /\ auto_paste' = ap
            /\ ap_log' = << ap >>
            /\ Post(update("None", "None", ApLabel(ap)))
            /\ init_pc' = "loading"
            /\ hooked' = TRUE
            /\ UNCHANGED << exited, exit_log >>
       ELSE /\ exited' = TRUE
            /\ exit_log' = <<"exit1">>
            /\ UNCHANGED << auto_paste, ap_log, qVars, init_pc, hooked >>
    /\ UNCHANGED << ctlVars, lock, engineVars, hk, envVars, n_sessions,
                    threadVars, uiVars, max_history, sinkVars, quit_scheduled,
                    last_toggle, start_mode, platform, filed, pushed, lock_log, ui_ops >>

\* the process before main() has run, on either platform
InitMain ==
    /\ platform \in {"Windows", "Linux"}
    /\ filed = <<>>
    /\ pushed = <<>>
    /\ is_recording = FALSE
    /\ is_processing = FALSE
    /\ lock = Free
    /\ auto_paste = FALSE
    /\ recorder = "None"
    /\ recorder_ready = FALSE
    /\ init_pc = "none"
    /\ hk = "idle"
    /\ hooked = FALSE
    /\ toggles_left = MaxPresses
    /\ keys_left = 0
    /\ closes_left = MaxCloses
    /\ ops_left = 0
    /\ n_sessions = 0
    /\ sw = [s \in Sessions |-> "none"]
    /\ stw = [s \in Sessions |-> "none"]
    /\ cb = [s \in Sessions |-> NoCb]
    /\ rec_sessions = {}
    /\ text_reqs = {}
    /\ queue = <<>>
    /\ n_posted = 0
    /\ max_history = MaxHistory
    /\ file = <<>>
    /\ history = <<>>
    /\ inserted = <<>>
    /\ current_status = "IDLE"
    /\ visible = TRUE
    /\ clipboard = <<"?">>
    /\ pastes = <<>>
    /\ quit_scheduled = FALSE
    /\ exited = FALSE
    /\ exit_log = <<>>
    /\ last_toggle = "none"
    /\ ap_log = <<>>
    /\ start_mode = [s \in Sessions |-> "None"]
    /\ lock_log = {}
    /\ ui_ops = {}

NextMain ==
    \/ \E ap \in BOOLEAN : main(ap)
    \/ Next
    \/ \E u, st, sh, d \in BOOLEAN : shutdown(u, st, sh, d)

SpecMain == InitMain /\ [][NextMain]_vars

(* ------------------ the history file across two runs ------------------- *)

InitFile == InitWith(0, 0, 0, MaxOps, 0..MaxItems, {<<>>}, {FALSE})

NextFile ==
    \/ \E t \in FileTexts : history_file_append(t)
    \/ history_file_load

SpecFile == InitFile /\ [][NextFile]_vars

(* ======================================================================= *)
(*                               the claims                                *)
(* ======================================================================= *)

\* the session's start-worker exists and has neither called recorder.start()
\* nor given up
StartPending(s) == sw[s] \in {"check", "listening", "start"}

\* recorder.start() was called for the session and no stop() followed
RecordingActive(s) == s \in rec_sessions

\* the session was toggled to Processing and its final text is not delivered
FinalPending(s) == stw[s] # "none" /\ cb[s].pc = "none"

SessionOpen(s) == StartPending(s) \/ RecordingActive(s) \/ FinalPending(s)

\* C1: recorder.start() is never invoked for a session while an earlier
\* session still has its engine start pending, its recording active or its
\* final text undelivered, and the engine never holds two sessions'
\* recordings at once.
C1_OneSessionAtATime ==
    [][ /\ \A s \in Sessions :
              (sw[s] = "start" /\ sw'[s] = "started")
                  => \A e \in 1..(s - 1) : ~SessionOpen(e)
        /\ Cardinality(rec_sessions') <= 1 ]_vars

\* C2: a toggle handled while _is_processing is True changes neither flag,
\* spawns no worker, invokes no engine operation and posts nothing to the
\* overlay.
C2_ToggleWhileProcessingIsNoOp ==
    [][ (hk = "toggle" /\ hk' = "idle" /\ is_processing)
            => UNCHANGED << is_recording, is_processing, n_sessions, sw, stw,
                            cb, recorder, rec_sessions, text_reqs, queue,
                            n_posted >> ]_vars

\* C2 witness: a toggle has been handled as a no-op and the controller is
\* still Processing.
C2_Witness == last_toggle = "noop" /\ hk = "idle" /\ is_processing

\* C3, read in the claim's favour (the engine is still not ready when the
\* start-worker serves the request): the worker never goes on to call
\* recorder.start(), and when it has run both flags are False.
C3_NotReadyEndsIdle ==
    [][ \A s \in Sessions :
          /\ sw[s] \in {"still", "lock", "clear", "aborted"}
                => sw'[s] \in {"still", "lock", "clear", "aborted"}
          /\ (sw[s] = "clear" /\ sw'[s] = "aborted")
                => (~is_recording' /\ ~is_processing') ]_vars

\* C7: a session's stop-worker calls recorder.stop() and recorder.text()
\* only after that session's start-worker has called recorder.start(), and
\* stop() is never called while the recorder is still None.
C7_StopAfterStart ==
    /\ \A s \in Sessions : stw[s] \in {"text", "done"} => sw[s] = "started"
    /\ \A s \in Sessions : stw[s] # "crashed"

\* the callback is between its flag reset and its return: the sinks run here
Dispatching(s) == cb[s].pc \in {"file", "push", "idle", "mode", "copy", "send"}

\* C8: while the dispatch of a delivered final text is in progress the
\* controller is still Processing.
C8_ProcessingDuringDispatch ==
    \A s \in Sessions : Dispatching(s) => is_processing

\* the delivered text holds nothing but whitespace (the empty text included)
AllWhitespace(raw) == \A i \in 1..Len(raw) : raw[i] \in Whitespace

IsAdd(msg) == msg.kind = "add_history"

\* the add_history messages waiting in a queue
Adds(q) == SelectSeq(q, IsAdd)

\* C4: when the delivered final text is empty or whitespace only, the
\* callback writes no history-file line, posts no history entry and touches
\* neither the clipboard nor the paste key; its flag reset leaves
\* _is_processing False, and the last thing it does is post an update with
\* status IDLE.
C4_BlankTextReachesNoSink ==
    [][ \A s \in Sessions :
          (cb[s].pc # cb'[s].pc /\ AllWhitespace(cb'[s].raw))
            => /\ UNCHANGED << file, clipboard, pastes >>
               /\ Adds(queue') = Adds(queue)
               /\ cb[s].pc = "clear" => ~is_processing'
               /\ cb'[s].pc = "done"
                    => /\ n_posted' = n_posted + 1
                       /\ queue'[Len(queue')].kind = "update"
                       /\ queue'[Len(queue')].status = "IDLE" ]_vars

\* C4 witness: a callback that was handed whitespace has run to its end.
C4_Witness ==
    \E s \in Sessions :
        /\ cb[s].pc = "done"
        /\ cb[s].raw # <<>> /\ AllWhitespace(cb[s].raw)
        /\ ~is_processing

Min(a, b) == IF a <= b THEN a ELSE b

\* the last k elements of a sequence
LastN(seq, k) == SubSeq(seq, Len(seq) - k + 1, Len(seq))

EntryOf(text) == <<DisplayStamp, text>>
LineOf(text) == [ts |-> FileStamp, text |-> text]

\* the two toggles of a session: Idle to Recording, Recording to Processing
SessionToggles ==
    (hk = "toggle" /\ hk' = "idle" /\ ~is_processing)
        => /\ is_recording' = ~is_recording
           /\ is_processing' = is_recording

\* the callback's steps for a non-blank text: the flag reset leaves the
\* controller Idle, one line goes to the file, one entry to the overlay,
\* then an IDLE update
SessionDispatch(s) ==
    (cb[s].pc # cb'[s].pc /\ cb'[s].text # <<>>)
        => /\ cb[s].pc = "clear" => (~is_processing' /\ ~is_recording')
           /\ file' = IF cb[s].pc = "file"
                      THEN Append(file, LineOf(cb[s].text)) ELSE file
           /\ Adds(queue') = IF cb[s].pc = "push"
                             THEN Append(Adds(queue), push_history(cb[s].text))
                             ELSE Adds(queue)
           /\ (cb[s].pc = "idle") => queue'[Len(queue')].status = "IDLE"

\* the entries a pass of _poll_queue over queue q adds
NewEntries(q) == [i \in 1..Len(Adds(q)) |-> EntryOf(Adds(q)[i].payload)]

\* the UI thread's pass over the queue: every entry is kept
PollGainsEntries ==
    (queue # <<>> /\ queue' = <<>> /\ Adds(queue) # <<>>)
        => /\ history' # <<>>
           /\ history'[Len(history')] = NewEntries(queue)[Len(Adds(queue))]

\* the callback of session s has returned after dispatching a non-blank text
Dispatched(s) == cb[s].pc = "done" /\ cb[s].text # <<>>

\* C6 as stated: from Idle a toggle gives Recording and the next one
\* Processing; when the callback then delivers a non-blank text t the
\* overlay history gains (HH:MM:SS, t) as its newest entry, the history file
\* gains one line for t, the status returns to Idle, and the clipboard
\* receives t if and only if auto-paste is on.
C6_SessionAsStated ==
    /\ [][ /\ SessionToggles
           /\ \A s \in Sessions : SessionDispatch(s)
           /\ PollGainsEntries ]_vars
    /\ [](\A s \in Sessions :
            Dispatched(s) => ((clipboard = cb[s].text) <=> auto_paste))

\* C6, amended: the history gains the entry when max_history >= 1 (a buffer
\* of size 0 keeps nothing), and the clipboard receives t if and only if
\* auto-paste is on and the clipboard write succeeds, in which case ctrl+v
\* is sent; the rest as stated.
C6_Session ==
    /\ [][ /\ SessionToggles
           /\ \A s \in Sessions : SessionDispatch(s)
           /\ max_history >= 1 => PollGainsEntries
           /\ max_history = 0 => history' = <<>> ]_vars
    /\ [](\A s \in Sessions :
            Dispatched(s) => ((clipboard = cb[s].text)
                                <=> (auto_paste /\ Has(pastes, cb[s].text))))

\* C6 witness: a session started with the engine ready has run through both
\* toggles and a non-blank dispatch with auto-paste on, and the UI thread has
\* shown it.
C6_Witness ==
    \E s \in Sessions :
        /\ sw[s] = "started" /\ stw[s] = "done" /\ Dispatched(s)
        /\ queue = <<>> /\ current_status = "IDLE"
        /\ ~is_recording /\ ~is_processing
        /\ history # <<>> /\ history[Len(history)] = EntryOf(cb[s].text)
        /\ file # <<>> /\ file[Len(file)] = LineOf(cb[s].text)
        /\ auto_paste /\ clipboard = cb[s].text /\ pastes = << cb[s].text >>

\* C9: every read and write of _is_recording and _is_processing happens
\* with the lock held, and the lock is never held across a call into the
\* engine.
C9_FlagsOnlyUnderLock == lock_log = {}

\* C10: the overlay's history and widgets are touched by the UI thread
\* only; a hotkey handler reaches them through the queue.
C10_OnlyUiThreadTouchesOverlay == ui_ops \subseteq {"ui"}

\* C11: for a non-blank final text the paste action is entered exactly when
\* auto_paste is True at the moment the callback reads it, whatever the flag
\* was when the session was started; the clipboard and the paste key are
\* touched by nothing else in the dispatch.
C11_ModeReadAtDispatch ==
    [][ /\ \A s \in Sessions :
              /\ (cb[s].pc = "mode" /\ cb'[s].pc # "mode")
                    => /\ cb'[s].pc \in {"copy", "done"}
                       /\ (cb'[s].pc = "copy") <=> auto_paste
              /\ (cb'[s].pc = "copy" /\ cb[s].pc # "copy") => cb[s].pc = "mode"
        /\ (clipboard' # clipboard \/ pastes' # pastes)
              => \E s \in Sessions : /\ cb[s].pc \in {"copy", "send"}
                                     /\ cb'[s].pc # cb[s].pc ]_vars

\* C11 witness: a session started with auto-paste off has pasted its text,
\* the flag having been switched on before the dispatch.
C11_Witness ==
    \E s \in Sessions :
        /\ start_mode[s] = "off"
        /\ Dispatched(s)
        /\ pastes = << cb[s].text >>

\* C12: for a non-blank final text the history-file line is written before
\* the history entry is pushed, both before the clipboard is written, and
\* ctrl+v is sent only after both and only while the clipboard holds that
\* text from a successful write.
C12_SinksInOrder ==
    [][ \A s \in Sessions :
          (cb[s].pc # cb'[s].pc /\ cb'[s].text # <<>>)
            => /\ Adds(queue') # Adds(queue)
                    => Has(file, LineOf(cb[s].text))
               /\ clipboard' # clipboard
                    => /\ Has(file, LineOf(cb[s].text))
                       /\ Has(Adds(queue), push_history(cb[s].text))
               /\ pastes' # pastes
                    => /\ Has(file, LineOf(cb[s].text))
                       /\ Has(Adds(queue), push_history(cb[s].text))
                       /\ clipboard = cb[s].text ]_vars

\* the step in which session s's dispatch tries the clipboard write and the
\* clipboard does not receive the text
ClipboardWriteFails(s) ==
    /\ cb[s].pc = "copy" /\ cb'[s].pc # "copy"
    /\ clipboard' # cb[s].text

\* C13: when the clipboard write of a dispatch fails, no paste keystroke
\* follows (the callback returns), the text is already in the history file
\* and pushed to the overlay, and the failure changes neither flag nor the
\* lock, so the controller is as Idle as it was and the next toggle is served.
C13_ClipboardFailureIsHarmless ==
    [][ \A s \in Sessions :
          ClipboardWriteFails(s)
            => /\ cb'[s].pc = "done"
               /\ pastes' = pastes
               /\ Has(file, LineOf(cb[s].text))
               /\ Has(Adds(queue), push_history(cb[s].text))
               /\ UNCHANGED << is_recording, is_processing, lock, hk >> ]_vars

\* C14: once shutdown has run, whatever the controller state and whichever
\* teardown steps failed, the unhook was made, an engine that had been
\* constructed was told to shut down, the window destroy was made, the
\* process ended with exit code 0, and nothing runs afterwards.
C14_ShutdownAlwaysTearsDown ==
    exited =>
        /\ exit_log[Len(exit_log)] = "exit0"
        /\ Has(exit_log, "unhook") \/ Has(exit_log, "unhook_failed")
        /\ recorder # "None"
              => (Has(exit_log, "shutdown") \/ Has(exit_log, "shutdown_failed"))
        /\ Has(exit_log, "destroy") \/ Has(exit_log, "destroy_failed")
        /\ ~ENABLED NextKeys

\* the step in which the history file is loaded
LoadStep == ops_left' = ops_left - 1 /\ file' = file

\* the well-formed entries of the file, in file order
WellFormed(f) == MatchedEntries(PhysicalLines(f))

\* C15: for every max_items >= 0, load_history_file returns at most
\* max_items entries, and they are the last max_items well-formed entries of
\* the file in file order; a missing (or empty) file gives the empty list.
C15_LoadReturnsLastItems ==
    [][ LoadStep
          => /\ Len(inserted') <= max_history
             /\ inserted' = LastN(WellFormed(file),
                                  Min(max_history, Len(WellFormed(file))))
             /\ file = <<>> => inserted' = <<>> ]_vars

\* the texts of a sequence of (stamp, text) entries
TextsOf(entries) == [i \in 1..Len(entries) |-> entries[i][2]]

\* the transcripts appended to the file so far
Appended(f) == [i \in 1..Len(f) |-> f[i].text]

\* C16: every append adds exactly one line, "[stamp] text", after the lines
\* already in the file, and loading a file made of k appends with
\* max_items >= k gives back exactly the k transcripts, in order.
C16_FileRoundTrip ==
    [][ /\ file' # file
            => \E t \in FileTexts :
                 PhysicalLines(file')
                   = Append(PhysicalLines(file),
                            [stamp |-> FileStamp, body |-> t])
        /\ (LoadStep /\ max_history >= Len(file))
            => TextsOf(inserted') = Appended(file) ]_vars

\* C17: on a platform other than Windows nothing of the controller ever
\* exists (no hook, no recorder, no recorder thread, no session, nothing
\* queued, the history file untouched) and the process ends with exit code
\* 1; on Windows every termination is shutdown's, with exit code 0.
C17_ExitCodes ==
    /\ platform # "Windows"
          => /\ ~hooked /\ recorder = "None" /\ init_pc = "none"
             /\ n_sessions = 0 /\ queue = <<>> /\ file = <<>>
             /\ exited => exit_log = <<"exit1">>
    /\ (platform = "Windows" /\ exited)
          => exit_log[Len(exit_log)] = "exit0"

\* C17 witness: main() has refused to start on an unsupported platform.
C17_Witness ==
    platform # "Windows" /\ exited /\ exit_log = <<"exit1">>

\* the session status the two flags stand for
StatusOf(recording, processing) ==
    IF recording /\ processing THEN "Both"
    ELSE IF recording THEN "Recording"
    ELSE IF processing THEN "Processing"
    ELSE "Idle"

\* C18: _is_recording and _is_processing are never both True, and the
\* status only ever changes from Idle to Recording, from Recording to
\* Processing, from Processing to Idle, or from Recording back to Idle, the
\* last only by a start-worker that found the engine not ready.
C18_OneStatusLegalTransitions ==
    /\ [](~(is_recording /\ is_processing))
    /\ [][ LET old == StatusOf(is_recording, is_processing)
               new == StatusOf(is_recording', is_processing')
           IN old # new
                => \/ <<old, new>> \in { <<"Idle", "Recording">>,
                                         <<"Recording", "Processing">>,
                                         <<"Processing", "Idle">> }
                   \/ /\ <<old, new>> = <<"Recording", "Idle">>
                      /\ \E s \in Sessions :
                            sw[s] = "clear" /\ sw'[s] = "aborted" ]_vars

\* C18 witness: the latest toggle started a session and a start-worker that
\* found the engine not ready has put the status back to Idle.
C18_Witness ==
    /\ last_toggle = "start"
    /\ ~is_recording /\ ~is_processing
    /\ \E s \in Sessions : sw[s] = "aborted"

\* C19: whenever _is_processing is True it eventually becomes False again,
\* given that every worker and callback that can run does run and the engine
\* answers every finalize request.
C19_ProcessingEnds == is_processing ~> ~is_processing

\* nothing is in progress: the recorder thread, every worker and every
\* callback has finished, the engine owes no callback, no handler is running
\* and the UI thread has emptied the queue
Quiescent ==
    /\ init_pc = "done" /\ hk = "idle"
    /\ \A s \in Sessions :
          /\ sw[s] \in {"none", "started", "aborted"}
          /\ stw[s] \in {"none", "done", "crashed"}
          /\ cb[s].pc \in {"none", "done"}
    /\ text_reqs = {}
    /\ queue = <<>>

\* the status the overlay should show for the two flags
DisplayOf(recording, processing) ==
    IF recording THEN "RECORDING"
    ELSE IF processing THEN "PROCESSING" ELSE "IDLE"

\* C20: whenever nothing is in progress, the overlay shows the controller's
\* status, and the engine is recording only if the controller is Recording.
C20_DisplayMatchesController ==
    Quiescent
        => /\ current_status = DisplayOf(is_recording, is_processing)
           /\ rec_sessions # {} => (is_recording /\ ~is_processing)


(* ----------------------- C21: the auto-paste flag ---------------------- *)

\* the step is a call of _toggle_auto_paste
AutoPasteToggled == Len(ap_log') = Len(ap_log) + 1

\* the label the overlay shows for the flag
LabelOf(b) == IF b THEN "on" ELSE "off"

\* C21: only _toggle_auto_paste changes auto_paste.  A toggle flips the
\* flag and puts the new value on the overlay's queue, and leaves the
\* session flags, the history, the history file and the engine as they
\* were; two toggles in a row give the value back; no other step (record
\* toggle, worker, engine callback, final-text dispatch) changes the flag.
C21_OnlyToggleChangesAutoPaste ==
    /\ [](/\ auto_paste = ap_log[Len(ap_log)]
          /\ \A i \in 1..(Len(ap_log) - 2) : ap_log[i + 2] = ap_log[i])
    /\ [][IF AutoPasteToggled
          THEN /\ auto_paste' = ~auto_paste
               /\ n_posted' = n_posted + 1
               /\ queue' # <<>>
               /\ queue'[Len(queue')].kind = "update"
               /\ queue'[Len(queue')].ap = LabelOf(auto_paste')
               /\ UNCHANGED << is_recording, is_processing, history,
                               inserted, file, engineVars >>
          ELSE auto_paste' = auto_paste]_vars

\* C21 witness: the hotkey was pressed twice, the flag is back at its
\* first value, and meanwhile a session was recorded and dispatched.
C21_Witness ==
    /\ Len(ap_log) = 3
    /\ auto_paste = ap_log[1]
    /\ \E s \in Sessions : cb[s].pc = "done" /\ cb[s].text # <<>>


(* ------------------------ C22: clearing the overlay -------------------- *)

\* the step is a click on [Clear]
ClearClicked == keys_left' = keys_left - 1

\* the step is a pass of _poll_queue
Polled == queue # <<>> /\ queue' = <<>>

\* the position of the last "clear" message in queue q, 0 if it has none
RECURSIVE LastClear(_, _)
LastClear(q, i) ==
    IF i = 0 THEN 0
    ELSE IF q[i].kind = "clear" THEN i ELSE LastClear(q, i - 1)

\* what a pass over queue q leaves of history h in a buffer of size n: if
\* q holds a "clear", only the entries q adds behind it, else h and the
\* entries q adds; in both cases the newest n of them
HistoryAfterPass(h, q, n) ==
    LET k    == LastClear(q, Len(q))
        rest == SubSeq(q, k + 1, Len(q))
        all  == (IF k = 0 THEN h ELSE <<>>) \o NewEntries(rest)
    IN LastN(all, Min(n, Len(all)))

\* C22: a clear empties the in-memory history and nothing else: the
\* history file, the session flags and the auto-paste flag stay as they
\* are.  Transcripts dispatched afterwards go to the file and to the
\* emptied in-memory history exactly as they do without a clear.
C22_ClearEmptiesOnlyTheOverlay ==
    [][ /\ ClearClicked
           => /\ history' = <<>>
              /\ UNCHANGED << file, is_recording, is_processing, auto_paste,
                              queue, clipboard, pastes, engineVars >>
        /\ Polled
           => /\ history' = HistoryAfterPass(history, queue, max_history)
              /\ UNCHANGED << file, is_recording, is_processing, auto_paste >>
        /\ \A s \in Sessions : SessionDispatch(s) ]_vars

\* C22 witness: a history seeded from the file was cleared, and a transcript
\* dispatched by a session is now the only entry of the in-memory history,
\* while the file holds the old line and the new one.
C22_Witness ==
    \E s \in Sessions :
        /\ Dispatched(s) /\ queue = <<>>
        /\ keys_left < MaxKeys
        /\ Len(file) = 2 /\ file[2] = LineOf(cb[s].text)
        /\ inserted = << EntryOf(cb[s].text) >>
        /\ history = << EntryOf(cb[s].text) >>


(* ------------------- C23: the order of the two sinks ------------------- *)

\* the place of session s in seq
RECURSIVE Pos(_, _)
Pos(seq, s) == IF seq = <<>> \/ Head(seq) = s THEN 1 ELSE 1 + Pos(Tail(seq), s)

\* seq lists sessions in the order they were stopped.  Sessions are
\* numbered as they start, and _toggle_recording stops the newest one, so
\* that is the order of their numbers
InStopOrder(seq) ==
    \A i, j \in 1..Len(seq) : i < j => seq[i] < seq[j]

\* C23: whatever the interleaving of toggles and final-text callbacks, the
\* non-blank transcripts are in the history file in the order their
\* sessions were stopped, and the overlay is handed the same transcripts in
\* the same order as the file has them (the UI thread applies the queue in
\* order, so that is the order of the in-memory history).
C23_SinksKeepSessionOrder ==
    /\ InStopOrder(filed)
    /\ \A i, j \in 1..Len(pushed) :
          i < j => Pos(filed, pushed[i]) < Pos(filed, pushed[j])

=============================================================================
